---- MODULE Spec2Model ----
(***************************************************************************)
(* Model of publish.py, the release packager of skye-lang.                 *)
(*                                                                         *)
(* The script is a straight line of filesystem operations around one       *)
(* external build command.  The state is the working directory (a map from *)
(* paths to nodes), the two module-level globals PLATFORM and ARCH, the    *)
(* position of the process in the script, and its exit status.  Each       *)
(* statement that can terminate the process is one action.  A terminated   *)
(* process can be started again on the working directory it left behind.   *)
(***************************************************************************)
EXTENDS Integers, Sequences, FiniteSets, TLC

VARIABLES
    fs,          \* working directory: path (sequence of names) -> node
    host,        \* what platform.system() / platform.machine() report
    PLATFORM,    \* module global, line 6-7
    ARCH,        \* module global, line 8
    pc,          \* next statement of the script, "exited" once terminated
    status,      \* exit status of the build command, -1 before it ran
    code,        \* local `code` of pack(): result of os.system, -1 before
    exitStatus,  \* exit status of the process, -1 while it runs
    raised,      \* statement whose exception terminated the process, or ""
    run,         \* ordinal of the current process on this working directory
    fs0,         \* working directory as the current process found it
    prevExit     \* exit status of the previous process, -1 if there was none

vars ==
    <<fs, host, PLATFORM, ARCH, pc, status, code, exitStatus, raised, run, fs0,
      prevExit>>

(***************************************************************************)
(* Bounds                                                                  *)
(***************************************************************************)
MaxRuns == 2

(***************************************************************************)
(* Paths and nodes                                                         *)
(***************************************************************************)
publishDir == <<"publish">>
tmpDir     == <<"tmp">>
licenseSrc == <<"LICENSE">>
libSrc     == <<"lib">>
releaseDir == <<"target", "release">>

Node(kind, zip, by) == [kind |-> kind, zip |-> zip, by |-> by]
File(by) == Node("file", {}, by)
Dir(by)  == Node("dir", {}, by)

IsPrefix(p, q) == Len(p) <= Len(q) /\ SubSeq(q, 1, Len(p)) = p
Under(f, p)    == {q \in DOMAIN f : IsPrefix(p, q)}
Rel(q, p)      == SubSeq(q, Len(p) + 1, Len(q))
Basename(p)    == p[Len(p)]

Exists(f, p) == p \in DOMAIN f
IsDir(f, p)  == Exists(f, p) /\ f[p].kind = "dir"
IsFile(f, p) == Exists(f, p) /\ f[p].kind = "file"

Without(f, S) == [q \in DOMAIN f \ S |-> f[q]]

(***************************************************************************)
(* Library calls of the script, as functions on the working directory.     *)
(* Each XxxOk is the condition under which the call returns normally;      *)
(* otherwise it raises and the working directory is left as it was.        *)
(***************************************************************************)

\* shutil.rmtree(p): p must be a directory; p and everything below it goes.
RmTreeOk(f, p) == IsDir(f, p)
\* faulty variant: the tree is left in place
RmTreeForgotten(f, p) == f
RmTree(f, p)   == Without(f, Under(f, p))

\* os.mkdir(p): FileExistsError when anything is named p.
\* faulty variant: an existing directory is accepted (exist_ok)
MkdirExistOk(f, p) == ~IsFile(f, p)
MkdirOk(f, p)    == ~Exists(f, p)
Mkdir(f, p, by)  == (p :> Dir(by)) @@ f

\* shutil.copy(src, dst): src must be a regular file; when dst is a
\* directory the copy lands in it under the source's base name.
CopyOk(f, src, dst) == IsFile(f, src)
CopyDst(f, src, dst) == IF IsDir(f, dst) THEN dst \o <<Basename(src)>> ELSE dst
Copy(f, src, dst, by) ==
    (CopyDst(f, src, dst) :> Node("file", f[src].zip, by)) @@ f

\* shutil.copytree(src, dst): src must be a directory and dst must not
\* exist; every node of src reappears below dst at the same relative path.
CopyTreeOk(f, src, dst) == IsDir(f, src) /\ ~Exists(f, dst)
CopyTree(f, src, dst, by) ==
    [q \in {dst \o Rel(s, src) : s \in Under(f, src)} |->
        LET s == src \o Rel(q, dst) IN Node(f[s].kind, f[s].zip, by)] @@ f

\* shutil.make_archive(base, "zip", root): writes base + ".zip"; the entries
\* are the nodes below root, named relative to root (root itself is no entry).
ZipPath(base) == SubSeq(base, 1, Len(base) - 1) \o <<Basename(base) \o ".zip">>
\* faulty variant: entries named from the working directory, not from root
ZipEntriesFromCwd(f, root) ==
    {<<q, f[q].kind>> : q \in Under(f, root) \ {root}}
ZipEntries(f, root) ==
    {<<Rel(q, root), f[q].kind>> : q \in Under(f, root) \ {root}}
MakeArchive(f, base, root, by) ==
    (ZipPath(base) :> Node("file", ZipEntries(f, root), by)) @@ f

(***************************************************************************)
(* Module-level globals and the names derived from them                    *)
(***************************************************************************)
\* faulty variant: the Darwin rewrite of line 7 is missing
NormalizeNothing(system) == system
Normalize(system) == IF system = "Darwin" THEN "macOS" ELSE system

\* faulty variant: no .exe suffix on any platform
BinaryNameNoSuffix(platform) == "skye"
BinaryName(platform) == IF platform = "Windows" THEN "skye.exe" ELSE "skye"

ArchiveBase(arch, platform) ==
    publishDir \o <<"Skye-" \o arch \o "-" \o platform>>

\* os.system(cmd): the child's exit status, in wait() encoding on POSIX
\* (status in the high byte) and as is on Windows.
\* faulty variant: only the low byte of the wait() status is kept
OsSystemLowByte(system, st) ==
    IF system = "Windows" THEN st ELSE (st * 256) % 256
OsSystem(system, st) ==
    IF system = "Windows" THEN st ELSE (st * 256) % 65536

\* faulty variant: only a result of exactly 1 counts as failure
BuildFailedOnlyOne(c) == c = 1
\* `if code != 0: sys.exit(1)`
BuildFailed(c) == c # 0

(***************************************************************************)
(* Inputs: the host, the working directory the first process finds, and    *)
(* what the build command does.                                            *)
(***************************************************************************)
Hosts ==
    { [system |-> "Linux",   machine |-> "x86_64"],
      [system |-> "Darwin",  machine |-> "arm64"],
      [system |-> "Darwin",  machine |-> "x86_64"],
      [system |-> "Windows", machine |-> "AMD64"] }

NoFiles == [q \in {} |-> File(0)]

PublishBefore ==
    { NoFiles,
      publishDir :> Dir(0),
      (publishDir :> Dir(0)) @@ (<<"publish", "notes.txt">> :> File(0))
          @@ (<<"publish", "Skye-x86_64-Linux.zip">> :> File(0)),
      publishDir :> File(0) }

TmpBefore ==
    { NoFiles,
      (tmpDir :> Dir(0)) @@ (<<"tmp", "stale">> :> File(0)),
      tmpDir :> File(0) }

LicenseBefore == { NoFiles, licenseSrc :> File(0) }

LibBefore ==
    { NoFiles,
      libSrc :> File(0),
      libSrc :> Dir(0),
      (libSrc :> Dir(0)) @@ (<<"lib", "a.txt">> :> File(0))
          @@ (<<"lib", "sub">> :> Dir(0))
          @@ (<<"lib", "sub", "b.txt">> :> File(0)) }

\* exit statuses the build command may end with, and the files it may
\* leave in target/release
BuildStatuses == {0, 1, 2, 255}
BuildOutputs  ==
    { {}, {"skye", "skye.d"}, {"skye.exe", "skye.d"}, {"skye", "skye.exe"} }

\* the working directory after the build command wrote target/release; the
\* build command writes nowhere else
Built(f, out, by) ==
    [q \in {releaseDir \o <<n>> : n \in out} |-> File(by)]
        @@ (releaseDir :> Dir(by)) @@ (<<"target">> :> Dir(by))
        @@ Without(f, Under(f, <<"target">>))

(***************************************************************************)
(* The process                                                             *)
(***************************************************************************)
Init ==
    /\ host \in Hosts
    /\ \E pb \in PublishBefore, tb \in TmpBefore,
          lb \in LicenseBefore, bb \in LibBefore :
            fs = pb @@ tb @@ lb @@ bb
    /\ fs0 = fs
    /\ PLATFORM = ""
    /\ ARCH = ""
    /\ pc = "detect"
    /\ status = -1
    /\ code = -1
    /\ exitStatus = -1
    /\ raised = ""
    /\ run = 1
    /\ prevExit = -1

\* faulty variant: the staging directory is removed on the way out
RaiseTidy(stmt, f) ==
    /\ pc' = "exited"
    /\ exitStatus' = 1
    /\ raised' = stmt
    /\ fs' = Without(f, Under(f, tmpDir))

\* an uncaught exception at stmt: traceback, exit status 1; nothing is
\* cleaned up, the working directory stays as the failed call left it (f)
Raise(stmt, f) ==
    /\ pc' = "exited"
    /\ exitStatus' = 1
    /\ raised' = stmt
    /\ fs' = f

Goto(stmt) ==
    /\ pc' = stmt
    /\ UNCHANGED <<exitStatus, raised>>

\* lines 6-8
Detect ==
    /\ pc = "detect"
    /\ PLATFORM' = Normalize(host.system)
    /\ ARCH' = host.machine
    /\ Goto("reset")
    /\ UNCHANGED <<fs, host, status, code, run, fs0, prevExit>>

\* faulty variant: an existing publish directory is kept as it is
ResetPublishKeepsDir ==
    /\ pc = "reset"
    /\ IF Exists(fs, publishDir) /\ ~RmTreeOk(fs, publishDir)
         THEN Raise("reset", fs)
         ELSE /\ fs' = IF Exists(fs, publishDir) THEN fs
                                                ELSE Mkdir(fs, publishDir, run)
              /\ Goto("build")
    /\ UNCHANGED <<host, PLATFORM, ARCH, status, code, run, fs0, prevExit>>

\* lines 29-32
ResetPublish ==
    /\ pc = "reset"
    /\ IF Exists(fs, publishDir) /\ ~RmTreeOk(fs, publishDir)
         THEN Raise("reset", fs)
         ELSE /\ fs' = Mkdir(RmTree(fs, publishDir), publishDir, run)
              /\ Goto("build")
    /\ UNCHANGED <<host, PLATFORM, ARCH, status, code, run, fs0, prevExit>>

\* lines 12-13
Build ==
    /\ pc = "build"
    /\ \E st \in BuildStatuses, out \in BuildOutputs :
         /\ fs' = Built(fs, out, run)
         /\ status' = st
         /\ code' = OsSystem(host.system, st)
    /\ IF BuildFailed(code')
         THEN pc' = "exited" /\ exitStatus' = 1 /\ UNCHANGED raised
         ELSE Goto("mkdir")
    /\ UNCHANGED <<host, PLATFORM, ARCH, run, fs0, prevExit>>

\* line 15
MkdirTmp ==
    /\ pc = "mkdir"
    /\ IF MkdirOk(fs, tmpDir)
         THEN fs' = Mkdir(fs, tmpDir, run) /\ Goto("copybin")
         ELSE Raise("mkdir", fs)
    /\ UNCHANGED <<host, PLATFORM, ARCH, status, code, run, fs0, prevExit>>

\* line 17
CopyBinary ==
    /\ pc = "copybin"
    /\ LET src == releaseDir \o <<BinaryName(PLATFORM)>> IN
         IF CopyOk(fs, src, tmpDir)
           THEN fs' = Copy(fs, src, tmpDir, run) /\ Goto("copylic")
           ELSE Raise("copybin", fs)
    /\ UNCHANGED <<host, PLATFORM, ARCH, status, code, run, fs0, prevExit>>

\* faulty variant: a missing LICENSE is skipped instead of raising
CopyLicenseOptional ==
    /\ pc = "copylic"
    /\ IF CopyOk(fs, licenseSrc, tmpDir)
         THEN fs' = Copy(fs, licenseSrc, tmpDir, run) /\ Goto("copytree")
         ELSE UNCHANGED fs /\ Goto("copytree")
    /\ UNCHANGED <<host, PLATFORM, ARCH, status, code, run, fs0, prevExit>>

\* line 18
CopyLicense ==
    /\ pc = "copylic"
    /\ IF CopyOk(fs, licenseSrc, tmpDir)
         THEN fs' = Copy(fs, licenseSrc, tmpDir, run) /\ Goto("copytree")
         ELSE Raise("copylic", fs)
    /\ UNCHANGED <<host, PLATFORM, ARCH, status, code, run, fs0, prevExit>>

\* line 19
CopyLib ==
    /\ pc = "copytree"
    /\ LET dst == tmpDir \o <<"lib">> IN
         IF CopyTreeOk(fs, libSrc, dst)
           THEN fs' = CopyTree(fs, libSrc, dst, run) /\ Goto("archive")
           ELSE Raise("copytree", fs)
    /\ UNCHANGED <<host, PLATFORM, ARCH, status, code, run, fs0, prevExit>>

\* lines 21-24; the write itself may fail (disk, permissions), leaving
\* either nothing or a truncated file under the archive's name
Archive ==
    /\ pc = "archive"
    /\ LET base == ArchiveBase(ARCH, PLATFORM) IN
       \E written \in BOOLEAN, residue \in BOOLEAN :
         IF written
           THEN fs' = MakeArchive(fs, base, tmpDir, run) /\ Goto("rmtree")
           ELSE Raise("archive", IF residue
                                   THEN (ZipPath(base) :> File(run)) @@ fs
                                   ELSE fs)
    /\ UNCHANGED <<host, PLATFORM, ARCH, status, code, run, fs0, prevExit>>

\* line 26, after which the script ends
Cleanup ==
    /\ pc = "rmtree"
    /\ IF RmTreeOk(fs, tmpDir)
         THEN /\ fs' = RmTree(fs, tmpDir)
              /\ pc' = "exited" /\ exitStatus' = 0 /\ UNCHANGED raised
         ELSE Raise("rmtree", fs)
    /\ UNCHANGED <<host, PLATFORM, ARCH, status, code, run, fs0, prevExit>>

\* the script is run again in the same working directory; before that the
\* operator may have removed a leftover tmp by hand
StartRun ==
    /\ pc = "exited"
    /\ run < MaxRuns
    /\ \E byHand \in BOOLEAN :
         fs' = IF byHand THEN Without(fs, Under(fs, tmpDir)) ELSE fs
    /\ fs0' = fs'
    /\ run' = run + 1
    /\ pc' = "detect"
    /\ prevExit' = exitStatus
    /\ status' = -1
    /\ code' = -1
    /\ exitStatus' = -1
    /\ raised' = ""
    /\ UNCHANGED <<host, PLATFORM, ARCH>>

Next ==
    \/ Detect
    \/ ResetPublish
    \/ Build
    \/ MkdirTmp
    \/ CopyBinary
    \/ CopyLicense
    \/ CopyLib
    \/ Archive
    \/ Cleanup
    \/ StartRun

Spec == Init /\ [][Next]_vars

(***************************************************************************)
(* Vocabulary of the properties, stated on the host and the working        *)
(* directory only                                                          *)
(***************************************************************************)
Exited    == pc = "exited"
Succeeded == Exited /\ exitStatus = 0

ExpectedPlatform == IF host.system = "Darwin" THEN "macOS" ELSE host.system
ExpectedZip ==
    <<"publish", "Skye-" \o host.machine \o "-" \o ExpectedPlatform \o ".zip">>
ExpectedBinary == IF host.system = "Windows" THEN "skye.exe" ELSE "skye"

PublishListing(f) == Under(f, publishDir) \ {publishDir}
PublishView(f) ==
    {<<q, f[q].kind, f[q].zip>> : q \in Under(f, publishDir)}
TmpTree(f) == [q \in Under(f, tmpDir) |-> f[q]]
TopLevel(z) == {e[1][1] : e \in z}

\* C1: whenever the build command ended with a non-zero status, the process
\* has exited with status 1, publish is an empty directory, nothing named tmp
\* was created or changed by this process, and the only nodes this process
\* wrote are publish itself and what the build left in target (no archive).
BuildFailureShortCircuit ==
    status > 0 =>
        /\ Exited /\ exitStatus = 1
        /\ IsDir(fs, publishDir) /\ PublishListing(fs) = {}
        /\ TmpTree(fs) = TmpTree(fs0)
        /\ \A q \in DOMAIN fs :
             fs[q].by = run => q = publishDir \/ IsPrefix(<<"target">>, q)

BuildFailureWitness ==
    /\ Exited /\ status = 2 /\ exitStatus = 1
    /\ PublishListing(fs0) # {} /\ PublishListing(fs) = {}

\* C2: a process that exits 0 leaves publish a directory holding exactly the
\* archive named after the host, every node of it written by this process,
\* whatever publish held before; and when the previous process also exited 0,
\* publish ends up with the same names and contents it had after that one.
IdempotentOutputDir ==
    Succeeded =>
        /\ IsDir(fs, publishDir)
        /\ PublishListing(fs) = {ExpectedZip}
        /\ \A q \in Under(fs, publishDir) : fs[q].by = run
        /\ (prevExit = 0 => PublishView(fs) = PublishView(fs0))

IdempotentWitness ==
    /\ Succeeded /\ run >= 2 /\ prevExit = 0
    /\ PublishListing(fs0) = {ExpectedZip} /\ fs0[ExpectedZip].by = run - 1

\* C3: after a process exits 0 the archive's entries are exactly the binary,
\* LICENSE and every node of lib at its path lib/...; there are three
\* top-level names and no entry path starts with tmp.
ArchiveContents ==
    Succeeded =>
        /\ IsFile(fs, ExpectedZip)
        /\ LET z == fs[ExpectedZip].zip IN
             /\ z = {<<<<ExpectedBinary>>, "file">>, <<<<"LICENSE">>, "file">>}
                      \cup {<<q, fs[q].kind>> : q \in Under(fs, libSrc)}
             /\ TopLevel(z) = {ExpectedBinary, "LICENSE", "lib"}
             /\ Cardinality(TopLevel(z)) = 3
             /\ \A e \in z : e[1][1] # "tmp"

ArchiveContentsWitness ==
    /\ Succeeded /\ IsFile(fs, ExpectedZip)
    /\ <<<<"lib", "a.txt">>, "file">> \in fs[ExpectedZip].zip
    /\ <<<<"lib", "sub", "b.txt">>, "file">> \in fs[ExpectedZip].zip
    /\ <<<<"skye">>, "file">> \in fs[ExpectedZip].zip

\* C4: after a process exits 0 the one file it wrote into publish is
\* Skye-<machine>-<platform>.zip, machine verbatim and platform "macOS" for
\* Darwin and the OS name otherwise: Skye-arm64-macOS.zip on Darwin/arm64,
\* Skye-x86_64-Linux.zip on Linux/x86_64.
PlatformNaming ==
    Succeeded =>
        /\ {q \in PublishListing(fs) : fs[q].by = run} = {ExpectedZip}
        /\ (host = [system |-> "Darwin", machine |-> "arm64"]
              => IsFile(fs, <<"publish", "Skye-arm64-macOS.zip">>))
        /\ (host = [system |-> "Linux", machine |-> "x86_64"]
              => IsFile(fs, <<"publish", "Skye-x86_64-Linux.zip">>))
        /\ (host = [system |-> "Windows", machine |-> "AMD64"]
              => IsFile(fs, <<"publish", "Skye-AMD64-Windows.zip">>))

PlatformNamingWitness ==
    /\ Succeeded /\ host.system = "Darwin" /\ host.machine = "arm64"
    /\ IsFile(fs, <<"publish", "Skye-arm64-macOS.zip">>)

\* C5: a process that exits 0 leaves nothing named tmp or below it, and a
\* running process makes tmp disappear only in a step taken when its archive
\* is already in publish.
StagingCleanup ==
    /\ [](Succeeded => Under(fs, tmpDir) = {})
    /\ [][(~Exited /\ Exists(fs, tmpDir) /\ ~Exists(fs', tmpDir))
            => (IsFile(fs, ExpectedZip) /\ fs[ExpectedZip].by = run
                /\ fs[ExpectedZip].zip # {})]_vars

StagingCleanupWitness ==
    /\ Succeeded /\ ~Exists(fs, tmpDir)
    /\ IsFile(fs, ExpectedZip) /\ fs[ExpectedZip].by = run

\* C6: when the process found something named tmp and its build ended with
\* status 0, it gets no further than the creation of tmp: it exits non-zero
\* on the exception raised there, tmp and everything below it stay exactly
\* as found, and publish holds no entry.
StagingCollision ==
    (Exists(fs0, tmpDir) /\ status = 0) =>
        /\ pc \in {"mkdir", "exited"}
        /\ (Exited => exitStatus # 0 /\ raised = "mkdir")
        /\ TmpTree(fs) = TmpTree(fs0)
        /\ PublishListing(fs) = {}

StagingCollisionWitness ==
    /\ Exited /\ status = 0 /\ raised = "mkdir"
    /\ IsDir(fs0, tmpDir) /\ IsFile(fs, <<"tmp", "stale">>)

\* C7: a terminated process has status 0 exactly when the build ended with
\* status 0 and no statement raised, and then the archive is in publish and
\* tmp is gone; it has status 1 when the build ended non-zero; and its status
\* is non-zero when the binary is missing from target/release, LICENSE is not
\* a file, lib is not a directory, or tmp was there at the start.
ExitCodes ==
    Exited =>
        /\ (exitStatus = 0 <=> (status = 0 /\ raised = ""))
        /\ (exitStatus = 0 =>
              IsFile(fs, ExpectedZip) /\ fs[ExpectedZip].by = run
              /\ ~Exists(fs, tmpDir))
        /\ (status > 0 => exitStatus = 1)
        /\ ((\/ ~IsFile(fs, releaseDir \o <<ExpectedBinary>>)
             \/ ~IsFile(fs0, licenseSrc)
             \/ ~IsDir(fs0, libSrc)
             \/ Exists(fs0, tmpDir)) => exitStatus > 0)

ExitCodesWitness ==
    /\ Exited /\ status = 0 /\ exitStatus = 1 /\ raised = "copylic"
    /\ ~IsFile(fs0, licenseSrc) /\ ~Exists(fs0, tmpDir)

\* C8: a process terminated by an exception in a copy or in the archive
\* write leaves the tmp directory it created; and a process that found tmp
\* at its start never exits 0, tmp is still there when it ends, and with a
\* build status of 0 the exception is the one of the creation of tmp.
StrayStaging ==
    Exited =>
        /\ (raised \in {"copybin", "copylic", "copytree", "archive"}
              => IsDir(fs, tmpDir) /\ fs[tmpDir].by = run)
        /\ (Exists(fs0, tmpDir) =>
              /\ exitStatus # 0
              /\ Exists(fs, tmpDir)
              /\ (status = 0 => raised = "mkdir"))

StrayStagingWitness ==
    /\ Exited /\ run >= 2 /\ prevExit = 1 /\ status = 0 /\ raised = "mkdir"
    /\ IsDir(fs0, tmpDir) /\ fs0[tmpDir].by = run - 1

\* C9: once the running process has passed the copy of the binary, the
\* staging directory it created holds, besides LICENSE and lib, exactly the
\* file skye.exe on Windows and skye on every other host, and never another
\* file of target/release.
StagedFromRelease(f) ==
    {q \in Under(f, tmpDir) : Len(q) = 2 /\ q[2] \notin {"LICENSE", "lib"}}

BinarySelection ==
    (IsDir(fs, tmpDir) /\ fs[tmpDir].by = run /\ pc # "copybin") =>
        /\ StagedFromRelease(fs) \subseteq {<<"tmp", ExpectedBinary>>}
        /\ (raised # "copybin" =>
              StagedFromRelease(fs) = {<<"tmp", ExpectedBinary>>})
        /\ (PLATFORM = "macOS" => ExpectedBinary = "skye")

BinarySelectionWitness ==
    /\ pc = "copylic" /\ PLATFORM = "Windows"
    /\ IsFile(fs, <<"target", "release", "skye">>)
    /\ IsFile(fs, <<"target", "release", "skye.exe">>)
    /\ StagedFromRelease(fs) = {<<"tmp", "skye.exe">>}

\* C10: once the reset of publish is done, every node of publish was written
\* by the current process; and a file written into publish by the current
\* process is there only from the archive step on, is either the archive
\* with binary, LICENSE and lib at its top level or the truncated remainder
\* of a failed write, and while tmp is still there tmp holds binary, LICENSE
\* and lib.
ResetDone == pc \notin {"detect", "reset"} /\ raised # "reset"

OutputDirInvariant ==
    /\ (ResetDone => \A q \in Under(fs, publishDir) : fs[q].by = run)
    /\ \A q \in PublishListing(fs) :
         fs[q].by = run =>
            /\ pc \in {"rmtree", "exited"}
            /\ \/ TopLevel(fs[q].zip) = {ExpectedBinary, "LICENSE", "lib"}
               \/ (fs[q].zip = {} /\ raised = "archive")
            /\ (Exists(fs, tmpDir) =>
                  /\ IsFile(fs, <<"tmp", ExpectedBinary>>)
                  /\ IsFile(fs, <<"tmp", "LICENSE">>)
                  /\ IsDir(fs, <<"tmp", "lib">>))

OutputDirWitness ==
    /\ Exited /\ run >= 2 /\ prevExit = 0 /\ exitStatus # 0
    /\ IsFile(fs0, ExpectedZip) /\ fs0[ExpectedZip].zip # {}
    /\ IsDir(fs, publishDir) /\ PublishListing(fs) = {}

====
